---- MODULE Spec2Model ----
(***************************************************************************)
(* Model of the court-portal scraper: the retrying fetch layer             *)
(* (shared/helpers.py) and the crawl driver main (http-scraper).           *)
(*                                                                         *)
(* A page body is a record: the marker strings its text contains and the   *)
(* parts of its markup the scraper reads.  One action is one span of code  *)
(* between two network exchanges.                                          *)
(***************************************************************************)
EXTENDS Integers, Sequences, FiniteSets, TLC

\* ------------------------------------------------------------------ bounds
MaxRetriesBound == 3      \* max_retries drawn from 0..MaxRetriesBound (fetch alone)
NBodies == 2              \* distinct payloads a response can carry
MaxAnchors == 2           \* a.ssSearchHyperlink anchors on the main page
MaxHidden == 2            \* hidden inputs on the search page
MaxDays == 2              \* end_date drawn from 0..MaxDays, start_date is 1
MaxRefs == 11             \* case references in the largest result set

\* ------------------------------------------------------- program constants
DefaultMaxRetries == 5
DefaultMsWait == 200
ModernVersion == 2017
InlineThreshold == 10
CASE_BATCH_SIZE == 5      \* int(os.environ["cases_batch_size"]) of this deployment

MsWaits == {50, DefaultMsWait}

None == <<>>
Some(x) == <<x>>

\* ------------------------------------------------------------------ pages
NoHidden == <<>>
PlainBody(marks, doc) ==
    [marks |-> marks, anchors |-> <<>>, hidden |-> NoHidden,
     officers |-> <<>>, refs |-> 0, doc |-> doc]

\* `verification_text not in response.text`
Contains(text, verification_text) == verification_text \in text.marks

\* Python truthiness of an Optional[str]
Truthy(s) == s # ""

VARIABLES
    fpc,        \* request_page_with_retry: "idle" | "active" | "returned" | "raised"
    f_url,      \* which request this call makes
    f_verif,    \* verification_text ("" stands for None)
    f_data,     \* data (form fields) sent with the request
    f_max,      \* max_retries
    f_ms,       \* ms_wait
    f_i,        \* i
    f_hist,     \* of every response received by this call, in order: ok, and has the marker
    f_resp,     \* response: None or Some([ok, text])
    f_ret,      \* returned value: None or Some(text)
    slept,      \* the sleeps taken by this call, in ms
    debugFile,  \* data/debug.html: None or Some(text)
    err,        \* the exception that ended the call/run ("" = none)
    \* ---- main
    pc,                 \* where main is ("none": no run of main)
    county, start_date, end_date, judicial_officers, is_test,   \* req_body
    base_url, odyssey_version, notes,                           \* parse_csv
    search_url,
    harvested,          \* the hidden inputs as read off the search page (line 97)
    hidden_values,
    judicial_officer_to_ID,
    day,                \* the day of the outer loop
    jo,                 \* index of JO_name in judicial_officers
    searches,           \* the searches posted so far, in order: day and officer name
    case_list,          \* number of entries of case_list_json["Data"]
    case_idx,           \* index of case_json in it
    case_html,          \* the case page held while the financial page is fetched
    sink,               \* the blob container: set of [name, contents]
    queue,              \* msg: None until msg.set(messages)
    issued,             \* the kinds of request the run has sent
    \* ---- functions called on their own
    w_log,              \* the calls of write_string_to_blob made so far, with their outcomes
    h_in,               \* hash_case_html: the documents given to it
    h_out,              \* hash_case_html: what it made of each (None before the call)
    p_in,               \* parse: the case page given to it
    p_out,              \* parse: the record returned (None before the call)
    \* ---- the worker process
    worker              \* the module globals and the invocations of main in the process

fvars == <<fpc, f_url, f_verif, f_data, f_max, f_ms, f_i, f_hist, f_resp, f_ret,
           slept, debugFile, err>>
reqvars == <<county, start_date, end_date, judicial_officers, is_test>>
csvvars == <<base_url, odyssey_version, notes>>
loopvars == <<day, jo, searches, case_list, case_idx, case_html>>
mvars == <<pc, reqvars, csvvars, search_url, harvested, hidden_values, judicial_officer_to_ID,
           loopvars, sink, queue, issued>>
unitvars == <<w_log, h_in, h_out, p_in, p_out, worker>>
vars == <<fvars, mvars, unitvars>>

\* ---------------------------------------------------------------- strings
\* Every form value is a record so that values of different origin compare.
Str(s) == [s |-> s, n |-> 0]
\* datetime.strftime(day, "%m/%d/%Y"): injective in the day
DateString(d) == [s |-> "%m/%d/%Y", n |-> d]

\* dict.update
DictUpdate(d, e) ==
    [k \in (DOMAIN d) \cup (DOMAIN e) |-> IF k \in DOMAIN e THEN e[k] ELSE d[k]]

NoData == <<>>

\* str.split(sep) on a string given as a sequence of tokens
RECURSIVE Split(_, _)
Split(s, sep) ==
    IF \A i \in 1..Len(s) : s[i] # sep
    THEN <<s>>
    ELSE LET i == CHOOSE i \in 1..Len(s) : s[i] = sep /\ \A j \in 1..(i - 1) : s[j] # sep
         IN  <<SubSeq(s, 1, i - 1)>> \o Split(SubSeq(s, i + 1, Len(s)), sep)

\* ------------------------------------------------- write_debug_and_raise
DebugMessage(verification_text) ==
    IF Truthy(verification_text) THEN "could not be found in page" ELSE "Failed to load page"

\* ------------------------------------------------------ the portal's pages
ErrorPage == PlainBody({"error"}, 0)

Anchors == [label : BOOLEAN, page : 0..1]   \* label: link text holds the calendar label;
                                            \* page: the id after "?ID=" in href, 0 if none
SeqsUpTo(S, n) == UNION {[1..k -> S] : k \in 0..n}

HiddenInputs ==
    { [name |-> "Settings.DefaultLocation", value |-> Some(Str("court1"))],
      [name |-> "SearchCriteria.SelectedCourt", value |-> Some(Str("all courts"))],
      [name |-> "", value |-> Some(Str("nameless"))],          \* no name attribute
      [name |-> "__RequestVerificationToken", value |-> None] } \* no value attribute

Option(name) == [text |-> name, value |-> [s |-> name, n |-> 1]]
PageOfficerLists ==
    { <<>>, <<Option(""), Option("Judge A"), Option("Judge B")>> }
RequestedOfficerLists == { <<>>, <<"Judge Z", "Judge B">> }

\* doc of a case page: its case number, 0 when the page has no case number element
CaseNumbers == {0, 1}

\* Sizes of a result set: empty, small, at the inline threshold, above it.
RefCounts == {0, 1, InlineThreshold, MaxRefs}

GoodPages(url, verif) ==
    LET m == {verif} \ {""} IN
    CASE url = "main_page" ->
            {[PlainBody(m, 0) EXCEPT !.anchors = a] : a \in SeqsUpTo(Anchors, MaxAnchors)}
      [] url = "search_page" ->
            {[PlainBody(m, 0) EXCEPT !.hidden = h, !.officers = o] :
                h \in SeqsUpTo(HiddenInputs, MaxHidden), o \in PageOfficerLists}
      [] url = "results_read" -> {[PlainBody(m, 0) EXCEPT !.refs = n] : n \in RefCounts}
      [] url = "case_detail" -> {PlainBody(m, d) : d \in CaseNumbers}
      [] OTHER -> {PlainBody(m, 1)}

\* The responses the portal can give to a request.
Responses(url, verif) ==
    IF url = "page"
    THEN [ok : BOOLEAN, text : {PlainBody(m, d) : m \in SUBSET {"Marker"}, d \in 1..NBodies}]
    ELSE [ok : {FALSE}, text : {ErrorPage}]
         \cup [ok : {TRUE}, text : GoodPages(url, verif) \cup
                                   (IF Truthy(verif) THEN {PlainBody({}, 0)} ELSE {})]

\* ---------------------------------------------- request_page_with_retry
callvars == <<fpc, f_url, f_verif, f_data, f_max, f_ms, f_i, f_hist, f_resp, f_ret, slept>>

\* Entering request_page_with_retry (max_retries is never passed by main).
Call(url, verif, data, ms) ==
    /\ fpc' = "active"
    /\ f_url' = url
    /\ f_verif' = verif
    /\ f_data' = data
    /\ f_max' = DefaultMaxRetries
    /\ f_ms' = ms
    /\ f_i' = 0
    /\ f_hist' = <<>>
    /\ f_resp' = None
    /\ f_ret' = None
    /\ slept' = <<>>

\* `i > max_retries`, tested after i was incremented
ExhaustedOffByOne(i, max_retries) == i >= max_retries
Exhausted(i, max_retries) == i > max_retries

\* `verification_text and verification_text not in response.text`
VerificationNeverFails(verification_text, text) == FALSE
VerificationFails(verification_text, text) ==
    Truthy(verification_text) /\ ~Contains(text, verification_text)

\* page_text=response.text, what write_debug_and_raise writes to data/debug.html
DebugNothing(page_text) == None
write_debug(page_text) == Some(page_text)

\* `return response.text`
ReturnStale(response, previous) == IF previous = None THEN response.text ELSE previous[1].text
Returned(response, previous) == response.text

\* an exception of the call caught by the caller
Caught(raised) == FALSE
\* main wraps no call in try/except: an exception of the call leaves main
Propagates(raised) == raised

\* One pass of the `while True` loop, with what follows the loop when the
\* response is ok.  An exception inside a call made by main ends the run.
Attempt(resp) ==
    /\ fpc = "active"
    /\ UNCHANGED unitvars
    /\ f_hist' = Append(f_hist, [ok |-> resp.ok, has |-> Contains(resp.text, f_verif)])
    /\ f_resp' = Some(resp)
    /\ issued' = issued \cup {f_url}
    /\ IF resp.ok
       THEN /\ UNCHANGED <<f_i, slept>>
            /\ IF VerificationFails(f_verif, resp.text)
               THEN /\ debugFile' = write_debug(resp.text)
                    /\ err' = DebugMessage(f_verif)
                    /\ fpc' = "raised"
                    /\ f_ret' = None
               ELSE /\ fpc' = "returned"
                    /\ f_ret' = Some(Returned(resp, f_resp))
                    /\ UNCHANGED <<debugFile, err>>
       ELSE /\ slept' = Append(slept, f_ms * (f_i + 1))
            /\ f_i' = f_i + 1
            /\ f_ret' = None
            /\ IF Exhausted(f_i + 1, f_max)
               THEN /\ debugFile' = write_debug(resp.text)
                    /\ err' = DebugMessage(f_verif)
                    /\ fpc' = "raised"
               ELSE /\ fpc' = "active"
                    /\ UNCHANGED <<debugFile, err>>
    /\ pc' = IF Propagates(fpc' = "raised") /\ pc # "none" THEN "failed" ELSE pc
    /\ UNCHANGED <<f_url, f_verif, f_data, f_max, f_ms>>
    /\ UNCHANGED <<reqvars, csvvars, search_url, harvested, hidden_values, judicial_officer_to_ID,
                   loopvars, sink, queue>>

request_page_with_retry == \E resp \in Responses(f_url, f_verif) : Attempt(resp)

\* ------------------------------------------------------------------ main
\* resources/texas_county_data.csv: one row per kind of portal profile.
Row(host, slash, version, row_notes) ==
    [portal |-> [host |-> host, slash |-> slash], version |-> version, notes |-> row_notes]

CountyData ==
    [c \in {"hays", "login", "nohash", "noslash", "twoslash", "modern", "modernbad"} |->
       CASE c = "hays"     -> Row("hays", TRUE, 2003, <<>>)
         [] c = "login"    -> Row("login", FALSE, 2003, <<"PUBLICLOGIN", "#", "u", "/", "p", "#">>)
         [] c = "nohash"   -> Row("nohash", TRUE, 2003, <<"PUBLICLOGIN", "#", "u", "/", "p">>)
         [] c = "noslash"  -> Row("noslash", TRUE, 2003, <<"PUBLICLOGIN", "#", "u", "#">>)
         [] c = "twoslash" -> Row("twoslash", TRUE, 2003, <<"PUBLICLOGIN", "#", "u", "/", "p", "/", "q", "#">>)
         [] c = "modern"   -> Row("modern", FALSE, 2017, <<>>)
         [] c = "modernbad" -> Row("modernbad", TRUE, 2017, <<"PUBLICLOGIN", "#", "u">>)]

Counties == (DOMAIN CountyData) \cup {"nowhere"}

\* int(req_body.get("ms_wait", "200")), the request leaving ms_wait out
ms_wait == DefaultMsWait

\* parse_csv: the row found, or None (the exception after the loop)
parse_csv(county_to_find) ==
    IF county_to_find \in DOMAIN CountyData
    THEN LET row == CountyData[county_to_find] IN
         Some([base_url |-> [row.portal EXCEPT !.slash = TRUE],
               odyssey_version |-> row.version,
               notes |-> row.notes])
    ELSE None

HasLoginMarker(n) == \E i \in 1..(Len(n) - 1) : n[i] = "PUBLICLOGIN" /\ n[i + 1] = "#"

\* maybe_login accepting notes with a single "#"
LoginWithOneHash(n) ==
    IF ~HasLoginMarker(n) THEN "skip"
    ELSE LET notes_split == Split(n, "#") IN
         IF Len(notes_split) < 2 THEN "malformed"
         ELSE IF Len(Split(notes_split[2], "/")) # 2 THEN "malformed"
         ELSE "login"

\* maybe_login returning at once, whatever the notes
LoginSkipped(n) == "skip"

\* maybe_login up to its request: "skip", "malformed" or "login"
maybe_login(n) ==
    IF ~HasLoginMarker(n) THEN "skip"
    ELSE LET notes_split == Split(n, "#") IN
         IF Len(notes_split) < 3 THEN "malformed"
         ELSE IF Len(Split(notes_split[2], "/")) # 2 THEN "malformed"
         ELSE "login"

LoginData(n) ==
    LET userpass_split == Split(Split(n, "#")[2], "/") IN
    [k \in {"UserName", "Password"} |->
        IF k = "UserName" THEN userpass_split[1] ELSE userpass_split[2]]

\* the fields create_search_form_data adds for a portal before 2017
LegacySearchFields(date, JO_id) ==
    [k \in {"SearchBy", "cboJudOffc", "DateSettingOnAfter", "DateSettingOnBefore",
            "SearchType", "SearchMode", "CaseCategories"} |->
       CASE k = "SearchBy" -> Str("3")
         [] k = "cboJudOffc" -> JO_id
         [] k = "DateSettingOnAfter" -> date
         [] k = "DateSettingOnBefore" -> date
         [] k = "SearchType" -> Str("JUDOFFC")
         [] k = "SearchMode" -> Str("JUDOFFC")
         [] OTHER -> Str("CR")]

\* the fields create_search_form_data adds for a portal of 2017 or later
ModernSearchFields(date, JO_id) ==
    [k \in {"SearchCriteria.SelectedHearingType", "SearchCriteria.SearchByType",
            "SearchCriteria.SelectedJudicialOfficer", "SearchCriteria.DateFrom",
            "SearchCriteria.DateTo"} |->
       CASE k = "SearchCriteria.SelectedHearingType" -> Str("Criminal Hearing Types")
         [] k = "SearchCriteria.SearchByType" -> Str("JudicialOfficer")
         [] k = "SearchCriteria.SelectedJudicialOfficer" -> JO_id
         [] OTHER -> date]

\* create_search_form_data without `form_data.update(hidden_values)`
SearchFormDataWithoutHidden(date, JO_id, hidden, version) ==
    IF version < ModernVersion
    THEN LegacySearchFields(date, JO_id)
    ELSE ModernSearchFields(date, JO_id)

create_search_form_data(date, JO_id, hidden, version) ==
    IF version < ModernVersion
    THEN DictUpdate(hidden, LegacySearchFields(date, JO_id))
    ELSE DictUpdate(hidden, ModernSearchFields(date, JO_id))

Fail(e) ==
    /\ pc' = "failed"
    /\ err' = e
    /\ UNCHANGED callvars

\* main from its entry to the first request: parse_csv, find_search_url, maybe_login
MainStart ==
    /\ pc = "start"
    /\ UNCHANGED unitvars
    /\ LET found == parse_csv(county) IN
       IF found = None
       THEN /\ Fail("county not found")
            /\ UNCHANGED <<csvvars, search_url>>
       ELSE LET row == found[1] IN
            /\ base_url' = row.base_url
            /\ odyssey_version' = row.odyssey_version
            /\ notes' = row.notes
            /\ IF row.odyssey_version >= ModernVersion
               THEN /\ search_url' = [path |-> "Home/Dashboard/26", id |-> 0]
                    /\ Call("search_page", "SearchCriteria.SelectedCourt", NoData, ms_wait)
                    /\ pc' = "await_search_page"
                    /\ UNCHANGED err
               ELSE /\ UNCHANGED search_url
                    /\ CASE maybe_login(row.notes) = "malformed" -> Fail("NOTES section is malformed")
                         [] maybe_login(row.notes) = "login" ->
                               /\ Call("login", "", LoginData(row.notes), ms_wait)
                               /\ pc' = "await_login"
                               /\ UNCHANGED err
                         [] OTHER ->
                               /\ Call("main_page", "ssSearchHyperlink", NoData, ms_wait)
                               /\ pc' = "await_main"
                               /\ UNCHANGED err
    /\ UNCHANGED <<reqvars, harvested, hidden_values, judicial_officer_to_ID, loopvars,
                   sink, queue, issued, debugFile>>

\* find_search_url after maybe_login returned: the main page is requested
AfterLogin ==
    /\ pc = "await_login" /\ fpc = "returned"
    /\ UNCHANGED unitvars
    /\ Call("main_page", "ssSearchHyperlink", NoData, ms_wait)
    /\ pc' = "await_main"
    /\ UNCHANGED <<reqvars, csvvars, search_url, harvested, hidden_values, judicial_officer_to_ID,
                   loopvars, sink, queue, issued, debugFile, err>>

\* the anchors passing `if court_calendar_link_text in link.text`
AnyLink(links) == 1..Len(links)
CalendarLinks(links) == {i \in 1..Len(links) : links[i].label}

\* find_search_url, the scan of the anchors, then main up to the search page request
AfterMainPage ==
    /\ pc = "await_main" /\ fpc = "returned"
    /\ UNCHANGED unitvars
    /\ LET main_page_html == f_ret[1]
           links == main_page_html.anchors
           hits == CalendarLinks(links)
       IN  IF hits = {}
           THEN /\ debugFile' = Some(main_page_html)
                /\ Fail(DebugMessage("Court Calendar link"))
                /\ UNCHANGED search_url
           ELSE LET link == links[CHOOSE i \in hits : \A j \in hits : i <= j] IN
                IF link.page = 0
                THEN /\ Fail("IndexError: href")
                     /\ UNCHANGED <<search_url, debugFile>>
                ELSE /\ search_url' = [path |-> "Search.aspx?ID=", id |-> link.page]
                     /\ Call("search_page", "Court Calendar", NoData, ms_wait)
                     /\ pc' = "await_search_page"
                     /\ UNCHANGED <<debugFile, err>>
    /\ UNCHANGED <<reqvars, csvvars, harvested, hidden_values, judicial_officer_to_ID,
                   loopvars, sink, queue, issued>>

\* {hidden["name"]: hidden["value"] for hidden in ... if hidden.has_attr("name")}
RECURSIVE HiddenDict(_)
HiddenDict(inputs) ==
    IF inputs = <<>> THEN <<>>
    ELSE LET h == inputs[Len(inputs)]
             before == HiddenDict(SubSeq(inputs, 1, Len(inputs) - 1))
         IN  IF h.name = "" THEN before
             ELSE DictUpdate(before, [k \in {h.name} |-> h.value[1]])

HiddenKeyError(inputs) == \E i \in 1..Len(inputs) : inputs[i].name # "" /\ inputs[i].value = None

\* {option.text: option["value"] for option in ... if option.text}
OfficerDict(options) ==
    [name \in {options[i].text : i \in 1..Len(options)} \ {""} |->
        options[CHOOSE i \in 1..Len(options) :
                   /\ options[i].text = name
                   /\ \A j \in 1..Len(options) : options[j].text = name => j <= i].value]

\* list(judicial_officer_to_ID.keys()): the names in order of first appearance
RECURSIVE Keys(_)
Keys(options) ==
    IF options = <<>> THEN <<>>
    ELSE LET before == Keys(SubSeq(options, 1, Len(options) - 1))
             name == options[Len(options)].text
         IN  IF name = "" \/ \E i \in 1..Len(before) : before[i] = name
             THEN before ELSE Append(before, name)

\* the days of the outer loop with the last one left out
DayRangeExclusive(first, last) == first..(last - 1)

\* start_date + timedelta(n) for n in range((end_date - start_date).days + 1)
DayRange(first, last) == first..last

\* The (day, officer) pairs that lead to a search: the officer is on the page.
Queries(jos, ids) ==
    {q \in DayRange(start_date, end_date) \X (1..Len(jos)) : jos[q[2]] \in DOMAIN ids}

NotBefore(q, d, k) == q[1] > d \/ (q[1] = d /\ q[2] >= k)

\* The loops of main from position (d, k) on: the next search is posted, or the
\* loops run out and main returns its response.
GoQuery(d, k, jos, ids, hidden) ==
    LET rest == {q \in Queries(jos, ids) : NotBefore(q, d, k)} IN
    IF rest = {}
    THEN /\ pc' = "done"
         /\ UNCHANGED <<callvars, day, jo, searches>>
    ELSE LET q == CHOOSE q \in rest : \A r \in rest : NotBefore(r, q[1], q[2]) IN
         /\ day' = q[1]
         /\ jo' = q[2]
         /\ searches' = Append(searches, [day |-> q[1], officer |-> jos[q[2]]])
         /\ Call("search", "Search Results",
                 create_search_form_data(DateString(q[1]), ids[jos[q[2]]], hidden,
                                         odyssey_version), ms_wait)
         /\ pc' = "await_search"

\* main from the search page to the first search: the harvest (lines 94-124)
AfterSearchPage ==
    /\ pc = "await_search_page" /\ fpc = "returned"
    /\ UNCHANGED unitvars
    /\ LET search_soup == f_ret[1] IN
       IF HiddenKeyError(search_soup.hidden)
       THEN /\ Fail("KeyError: value")
            /\ UNCHANGED <<harvested, hidden_values, judicial_officer_to_ID,
                           judicial_officers, day, jo, searches>>
       ELSE LET found == HiddenDict(search_soup.hidden) IN
            /\ harvested' = found
            /\ IF odyssey_version < ModernVersion
               THEN \* main_soup is not a name of main
                    /\ hidden_values' = found
                    /\ Fail("NameError: main_soup")
                    /\ UNCHANGED <<judicial_officer_to_ID, judicial_officers, day, jo, searches>>
               ELSE IF "Settings.DefaultLocation" \notin DOMAIN found
               THEN /\ hidden_values' = found
                    /\ Fail("KeyError: Settings.DefaultLocation")
                    /\ UNCHANGED <<judicial_officer_to_ID, judicial_officers, day, jo, searches>>
               ELSE LET hv == DictUpdate(found,
                                 [k \in {"SearchCriteria.SelectedCourt"} |->
                                     found["Settings.DefaultLocation"]])
                        ids == OfficerDict(search_soup.officers)
                        jos == IF judicial_officers = <<>> THEN Keys(search_soup.officers)
                               ELSE judicial_officers
                    IN  /\ hidden_values' = hv
                        /\ judicial_officer_to_ID' = ids
                        /\ judicial_officers' = jos
                        /\ GoQuery(start_date, 1, jos, ids, hv)
                        /\ UNCHANGED err
    /\ UNCHANGED <<county, start_date, end_date, is_test, csvvars, search_url,
                   case_list, case_idx, case_html, sink, queue, issued, debugFile>>

\* after the search POST (modern): the JSON of the results is requested
AfterSearch ==
    /\ pc = "await_search" /\ fpc = "returned"
    /\ UNCHANGED unitvars
    /\ Call("results_read", "AggregateResults", NoData, DefaultMsWait)
    /\ pc' = "await_read"
    /\ UNCHANGED <<reqvars, csvvars, search_url, harvested, hidden_values, judicial_officer_to_ID,
                   loopvars, sink, queue, issued, debugFile, err>>

CaseDetailCall == Call("case_detail", "Case Information", NoData, ms_wait)

\* the results arrived: the loop over case_list_json["Data"] starts
AfterRead ==
    /\ pc = "await_read" /\ fpc = "returned"
    /\ UNCHANGED unitvars
    /\ case_list' = f_ret[1].refs
    /\ case_html' = None
    /\ IF f_ret[1].refs = 0
       THEN /\ case_idx' = 0
            /\ GoQuery(day, jo + 1, judicial_officers, judicial_officer_to_ID, hidden_values)
       ELSE /\ case_idx' = 1
            /\ CaseDetailCall
            /\ pc' = "await_detail"
            /\ UNCHANGED <<day, jo, searches>>
    /\ UNCHANGED <<reqvars, csvvars, search_url, harvested, hidden_values, judicial_officer_to_ID,
                   sink, queue, issued, debugFile, err>>

\* the case page arrived: the financial information is requested
AfterCaseDetail ==
    /\ pc = "await_detail" /\ fpc = "returned"
    /\ UNCHANGED unitvars
    /\ case_html' = f_ret
    /\ Call("financial", "Financial", NoData, ms_wait)
    /\ pc' = "await_financial"
    /\ UNCHANGED <<reqvars, csvvars, search_url, harvested, hidden_values, judicial_officer_to_ID,
                   day, jo, searches, case_list, case_idx, sink, queue, issued, debugFile, err>>

\* ------------------------------------------------------- hash_case_html
\* A case document as hash_case_html reads it: the case number element (0: none),
\* the <body> (None: none) as its tables in document order, and what follows
\* </body>.  A table is its own text (does it hold "Balance Due", and the rest)
\* and the table nested in it, if any.
Table(balance, content, inner) == [balance |-> balance, content |-> content, inner |-> inner]
Document(case_no, body, tail) == [case_no |-> case_no, body |-> body, tail |-> tail]

\* `"Balance Due" in balance_table.text`: the text of a table holds that of the
\* tables nested in it
HasBalanceDue(table) ==
    table.balance \/ (table.inner # None /\ table.inner[1].balance)

\* body.find_all("table")[-1]: the last table in document order, at any depth
LastTable(tables) ==
    LET top == tables[Len(tables)] IN
    IF top.inner # None THEN top.inner[1] ELSE top

\* the tables of the body left in place
StripNothing(tables) == tables

\* balance_table.decompose() when the last table holds "Balance Due"
StripBalance(tables) ==
    LET top == tables[Len(tables)]
        front == SubSeq(tables, 1, Len(tables) - 1)
    IN  IF ~HasBalanceDue(LastTable(tables)) THEN tables
        ELSE IF top.inner # None THEN Append(front, [top EXCEPT !.inner = None])
        ELSE front

\* xxhash.xxh64(relevant_file_str).hexdigest(): equal strings, equal digests
xxh64(relevant_file_str) == [xxh64 |-> relevant_file_str]

\* hash_case_html: None when it raises (no case number element: IndexError; no
\* body: AttributeError; no table in the body: IndexError)
hash_case_html(file_contents) ==
    IF file_contents.case_no = 0 THEN None
    ELSE IF file_contents.body = None THEN None
    ELSE IF file_contents.body[1] = <<>> THEN None
    ELSE Some([file_hash |-> xxh64(StripBalance(file_contents.body[1])),
               case_no |-> file_contents.case_no])

\* the case page alone, the financial fragment dropped
DetailOnly(detail, fin) ==
    Document(detail.doc, Some(<<Table(FALSE, detail.doc, None)>>), 0)

\* case_html += ...: the financial fragment follows the </body> of the case page,
\* whose body holds one table
CaseDocument(detail, fin) ==
    Document(detail.doc, Some(<<Table(FALSE, detail.doc, None)>>), fin.doc)

\* blob_client.exists()
exists(blob_name, container) == \E b \in container : b.name = blob_name

\* blob_client.upload_blob(data=file_contents): overwrite is not handed on, and
\* the client then refuses to replace a blob that exists
upload_blob(file_contents, blob_name, container) ==
    IF exists(blob_name, container)
    THEN [container |-> container, error |-> "ResourceExistsError"]
    ELSE [container |-> container \cup {[name |-> blob_name, contents |-> file_contents]},
          error |-> ""]

\* write_string_to_blob replacing whatever the key holds
WriteAlwaysUploads(file_contents, blob_name, container, overwrite) ==
    [container |-> {b \in container : b.name # blob_name}
                       \cup {[name |-> blob_name, contents |-> file_contents]},
     ret |-> Some(TRUE), error |-> ""]

\* write_string_to_blob: the container afterwards, the value returned (None when
\* it raised) and the exception raised ("" when it returned)
write_string_to_blob(file_contents, blob_name, container, overwrite) ==
    IF exists(blob_name, container) /\ ~overwrite
    THEN [container |-> container, ret |-> Some(FALSE), error |-> ""]
    ELSE LET up == upload_blob(file_contents, blob_name, container) IN
         [container |-> up.container,
          ret |-> IF up.error = "" THEN Some(TRUE) ELSE None,
          error |-> up.error]

\* `if is_test: return` after a case was written, with the test flag ignored
NeverBails(test) == FALSE
Bails(test) == test

\* the financial page arrived: hash, write, and on to the next case or search
AfterFinancial ==
    /\ pc = "await_financial" /\ fpc = "returned"
    /\ UNCHANGED unitvars
    /\ LET html == CaseDocument(case_html[1], f_ret[1])
           file_hash_dict == hash_case_html(html)
       IN  IF file_hash_dict = None
           THEN /\ Fail("IndexError: case number")
                /\ UNCHANGED <<sink, loopvars>>
           ELSE LET blob_name == [case_no |-> file_hash_dict[1].case_no,
                                  county |-> county,
                                  date |-> day,
                                  file_hash |-> file_hash_dict[1].file_hash]
                IN  /\ sink' = write_string_to_blob(html, blob_name, sink, FALSE).container
                    /\ case_html' = None
                    /\ UNCHANGED <<case_list, err>>
                    /\ IF Bails(is_test)
                       THEN /\ pc' = "done"
                            /\ UNCHANGED <<callvars, day, jo, searches, case_idx>>
                       ELSE IF case_idx < case_list
                       THEN /\ case_idx' = case_idx + 1
                            /\ CaseDetailCall
                            /\ pc' = "await_detail"
                            /\ UNCHANGED <<day, jo, searches>>
                       ELSE /\ case_idx' = 0
                            /\ GoQuery(day, jo + 1, judicial_officers, judicial_officer_to_ID,
                                       hidden_values)
    /\ UNCHANGED <<reqvars, csvvars, search_url, harvested, hidden_values, judicial_officer_to_ID,
                   queue, issued, debugFile>>

\* ------------------------------------------------------------ pre2017.parse
\* A string is the sequence of its words ("" is <<>>, " ".join is \o); a table
\* is its caption and its rows, a row the text nodes of its cells in document
\* order: the cell's tag, whether the text is bold, and the text.
Node(tag, bold, words) == [tag |-> tag, b |-> bold, words |-> words]
HtmlTable(caption, rows) == [caption |-> caption, rows |-> rows]

Reverse(s) == [i \in 1..Len(s) |-> s[Len(s) + 1 - i]]

\* str.lower() on the words that have capitals
Lower(w) ==
    CASE w \in {"Waiver", "WAIVER"} -> "waiver"
      [] w = "OF" -> "of"
      [] w \in {"Right", "RIGHT"} -> "right"
      [] w = "TO" -> "to"
      [] w \in {"Counsel", "COUNSEL"} -> "counsel"
      [] w \in {"Court", "COURT"} -> "court"
      [] w \in {"Appointed", "APPOINTED"} -> "appointed"
      [] w = "Retained" -> "retained"
      [] w = "Pro" -> "pro"
      [] w = "Se" -> "se"
      [] OTHER -> w

\* `phrase in text`, both sides as given
Holds(text, phrase) ==
    \E k \in 0..(Len(text) - Len(phrase)) : \A i \in 1..Len(phrase) : text[k + i] = phrase[i]

\* `phrase.lower() in str(rows).lower()`: the phrase lies within one string of the rows
HoldsLower(rows, phrase) ==
    \E r \in 1..Len(rows) : \E c \in 1..Len(rows[r]) :
        Holds([i \in 1..Len(rows[r][c]) |-> Lower(rows[r][c][i])],
              [i \in 1..Len(phrase) |-> Lower(phrase[i])])

HasText(node) == node.words # <<>>
NonEmpty(list) == list # <<>>

\* [tag.strip() for tag in tr.find_all(text=True) if tag.strip()]
RowTexts(tr) ==
    LET kept == SelectSeq(tr, HasText) IN [i \in 1..Len(kept) |-> kept[i].words]

\* lines 38-46: the rows of the table as lists of strings, empty lists dropped
AllRowTexts(table) ==
    SelectSeq([i \in 1..Len(table.rows) |-> RowTexts(table.rows[i])], NonEmpty)

NoSections == [state |-> <<>>, defendant |-> <<>>, bondsman |-> <<>>]

\* the loop of lines 51-63 taking the rows from the top (pop(0))
RECURSIVE PartyScanTopDown(_, _, _)
PartyScanTopDown(table_rows, SECTION, acc) ==
    IF table_rows = <<>> THEN acc
    ELSE LET row == table_rows[1]
             added == [acc EXCEPT ![SECTION] = Append(@, row)]
             next == IF row[1] = <<"Defendant">> THEN "bondsman"
                     ELSE IF row[1] = <<"State">> THEN "defendant" ELSE SECTION
         IN  IF row[1] = <<"Bondsman">> THEN added
             ELSE PartyScanTopDown(Tail(table_rows), next, added)

\* the loop of lines 51-63: rows are popped off the end; each goes to the list
\* of the current SECTION, then its first string may move SECTION on or stop
RECURSIVE PartyScan(_, _, _)
PartyScan(table_rows, SECTION, acc) ==
    IF table_rows = <<>> THEN acc
    ELSE LET row == table_rows[Len(table_rows)]
             added == [acc EXCEPT ![SECTION] = Append(@, row)]
             next == IF row[1] = <<"Defendant">> THEN "bondsman"
                     ELSE IF row[1] = <<"State">> THEN "defendant" ELSE SECTION
         IN  IF row[1] = <<"Bondsman">> THEN added
             ELSE PartyScan(SubSeq(table_rows, 1, Len(table_rows) - 1), next, added)

\* lines 47-65 and 83: the three lists, each back in page order
PartySections(table_rows) ==
    LET popped == PartyScan(table_rows, "state", NoSections) IN
    [state |-> Reverse(popped.state),
     defendant |-> Reverse(popped.defendant),
     bondsman |-> Reverse(popped.bondsman)]

\* row[:5] == "Male " or row[:7] == "Female "
IsGender(string) == Len(string) >= 2 /\ string[1] \in {"Male", "Female"}

\* lines 67-70: the (0-based) index of the last string of the row that starts
\* with a gender, 0 when there is none
gender_position(row) ==
    LET at == {i \in 1..Len(row) : IsGender(row[i])} IN
    IF at = {} THEN 0 ELSE (CHOOSE i \in at : \A j \in at : j <= i) - 1

Unavailable == <<"Unavailable", "Unavailable">>

RECURSIVE Join(_)
Join(strings) == IF strings = <<>> THEN <<>> ELSE strings[1] \o Join(Tail(strings))

\* lines 73-82: the first defendant row with the name strings before the gender
\* joined into one, or with a placeholder put in where the gender is missing
FixedDefendantRow(row) ==
    LET gp == gender_position(row) IN
    IF gp > 2
    THEN <<row[1], Join(SubSeq(row, 2, gp))>> \o SubSeq(row, gp + 1, Len(row))
    ELSE IF gp = 0
    THEN IF Len(row) <= 2 THEN Append(row, Unavailable)
         ELSE SubSeq(row, 1, 2) \o <<Unavailable>> \o SubSeq(row, 3, Len(row))
    ELSE row

\* ", ".join(strings)
RECURSIVE JoinComma(_)
JoinComma(strings) ==
    IF strings = <<>> THEN <<>>
    ELSE IF Len(strings) = 1 THEN strings[1]
    ELSE strings[1] \o <<",">> \o JoinComma(Tail(strings))

\* list[i] if len(list) > i else "" (i counted from 0)
At(list, i) == IF Len(list) > i THEN list[i + 1] ELSE <<>>

allowed_states == {<<"Appointed">>, <<"Retained">>, <<"Court", "Appointed">>, <<"Pro", "Se">>}
check_phrases == << <<"Court", "Appointed">>, <<"Retained">>, <<"Appointed">>, <<"Pro", "Se">> >>

\* the cleanup scanning for the phrases in the order of allowed_states
CleanupInAllowedOrder(value, defendant_rows) ==
    IF value \in allowed_states THEN value
    ELSE IF HoldsLower(defendant_rows, <<"Appointed">>) THEN <<"Appointed">>
    ELSE IF HoldsLower(defendant_rows, <<"Retained">>) THEN <<"Retained">>
    ELSE IF HoldsLower(defendant_rows, <<"Court", "Appointed">>) THEN <<"Court", "Appointed">>
    ELSE IF HoldsLower(defendant_rows, <<"Pro", "Se">>) THEN <<"Pro", "Se">>
    ELSE <<>>

\* lines 146-151: the value cleaned up against the allowed states
Cleanup(value, defendant_rows) ==
    IF value \in allowed_states THEN value
    ELSE LET found == {p \in 1..Len(check_phrases) : HoldsLower(defendant_rows, check_phrases[p])}
         IN  IF found = {} THEN <<>>
             ELSE check_phrases[CHOOSE p \in found : \A q \in found : p <= q]

Raised(e) == [error |-> e, data |-> <<>>]
Parsed(d) == [error |-> "", data |-> d]

\* lines 38-153: the party information of a party table, or the exception raised
party_information(table) ==
    LET sections == PartySections(AllRowTexts(table))
        state_rows == sections.state
    IN  IF sections.defendant = <<>> THEN Raised("IndexError")            \* line 68
        ELSE IF sections.bondsman = <<>> THEN Raised("IndexError")        \* line 84
        ELSE
        LET d0 == FixedDefendantRow(sections.defendant[1])
            defendant_rows == [sections.defendant EXCEPT ![1] = d0]
            bondsman_rows == IF sections.bondsman[1][1] # <<"Bondsman">> THEN <<>>
                             ELSE sections.bondsman
            hw == Len(d0) > 4 /\ "," \in {d0[5][i] : i \in 1..Len(d0[5])}
            off == IF hw THEN 0 ELSE -1
        IN  IF Len(d0) < 3 THEN Raised("IndexError")                      \* lines 91-92
            ELSE IF bondsman_rows # <<>> /\ Len(bondsman_rows[1]) < 2
            THEN Raised("IndexError")                                     \* line 131
            ELSE Parsed(
              [k \in {"defendant", "sex", "race", "date of birth", "height", "weight",
                      "defense attorney", "appointed or retained",
                      "defense attorney phone number", "defendant address", "SID",
                      "prosecuting attorney", "prosecuting attorney phone number",
                      "prosecuting attorney address", "bondsman", "bondsman address"} |->
                CASE k = "defendant" -> d0[2]
                  [] k = "sex" -> <<d0[3][1]>>
                  [] k = "race" -> IF Len(d0) > 3 THEN Tail(d0[3]) ELSE <<"Unavailable">>
                  [] k = "date of birth" ->
                        IF Len(d0) > 3 /\ Len(d0[4]) > 1 THEN <<d0[4][2]>> ELSE <<>>
                  [] k = "height" -> IF hw THEN Split(d0[5], ",")[1] ELSE <<>>
                  [] k = "weight" -> IF hw THEN Split(d0[5], ",")[2] ELSE <<>>
                  [] k = "defense attorney" -> At(d0, 5 + off)
                  [] k = "appointed or retained" -> Cleanup(At(d0, 6 + off), defendant_rows)
                  [] k = "defense attorney phone number" -> At(d0, 7 + off)
                  [] k = "defendant address" ->
                        IF Len(defendant_rows) > 1
                        THEN JoinComma(SubSeq(defendant_rows[2], 1, Len(defendant_rows[2]) - 2))
                        ELSE <<>>
                  [] k = "SID" ->
                        IF Len(defendant_rows) > 1
                        THEN defendant_rows[2][Len(defendant_rows[2])] ELSE <<>>
                  [] k = "prosecuting attorney" -> At(state_rows[1], 2)
                  [] k = "prosecuting attorney phone number" -> At(state_rows[1], 3)
                  [] k = "prosecuting attorney address" ->
                        IF Len(state_rows) > 1 THEN JoinComma(state_rows[2]) ELSE <<>>
                  [] k = "bondsman" -> IF bondsman_rows # <<>> THEN bondsman_rows[1][2] ELSE <<>>
                  [] OTHER -> IF Len(bondsman_rows) > 1 THEN JoinComma(bondsman_rows[2])
                              ELSE <<>>])

\* ---- the other tables
\* `phrase in table.text`: the caption or the text of a cell holds the phrase
InText(table, phrase) ==
    \/ phrase \in {table.caption[i] : i \in 1..Len(table.caption)}
    \/ \E r \in 1..Len(table.rows) : \E c \in 1..Len(table.rows[r]) :
          phrase \in {table.rows[r][c].words[i] : i \in 1..Len(table.rows[r][c].words)}

\* the branch of the if/elif chain of lines 19-210 a table takes
TableClass(table) ==
    IF InText(table, "Case Type:") /\ InText(table, "Date Filed:") THEN "header"
    ELSE IF InText(table, "Related Case Information") THEN "related"
    ELSE IF InText(table, "Party Information") THEN "party"
    ELSE IF InText(table, "Charge Information") THEN "charge"
    ELSE IF InText(table, "Events & Orders of the Court") THEN "events"
    ELSE IF InText(table, "Financial Information") THEN "financial"
    ELSE "none"

Put(dict, key, value) == DictUpdate(dict, [k \in {key} |-> value])

\* every cell of the table, in document order
RECURSIVE Cells(_)
Cells(rows) == IF rows = <<>> THEN <<>> ELSE rows[1] \o Cells(Tail(rows))

IsBold(node) == node.b
IsTh(node) == node.tag = "th"
IsTd(node) == node.tag = "td"
HasTh(tr) == \E c \in 1..Len(tr) : tr[c].tag = "th"

\* label[:-1].lower()
LabelKey(label) ==
    CASE label = <<"Case Type:">> -> "case type"
      [] label = <<"Date Filed:">> -> "date filed"
      [] label = <<"Location:">> -> "location"
      [] OTHER -> "label"

\* lines 24-32: the labels from the i-th on (i counted from 0)
RECURSIVE HeaderLabels(_, _, _, _, _)
HeaderLabels(table_values, table_labels, i, label, case_data) ==
    IF i >= Len(table_labels) THEN Parsed(case_data)
    ELSE IF Len(table_values) < i + 2 THEN Raised("IndexError")
    ELSE LET value == table_values[i + 2].words IN
         IF table_labels[i + 1].words # <<>>
         THEN HeaderLabels(table_values, table_labels, i + 1, Some(table_labels[i + 1].words),
                           Put(case_data, LabelKey(table_labels[i + 1].words), value))
         ELSE IF label = None THEN Raised("UnboundLocalError")
         ELSE HeaderLabels(table_values, table_labels, i + 1, label,
                           Put(case_data, LabelKey(label[1]),
                               case_data[LabelKey(label[1])] \o <<"\n">> \o value))

\* lines 20-32
header(table, case_data) ==
    LET table_values == SelectSeq(Cells(table.rows), IsBold)
        table_labels == SelectSeq(Cells(table.rows), IsTh)
    IN  IF table_values = <<>> THEN Raised("IndexError")
        ELSE HeaderLabels(table_values, table_labels, 0, None,
                          Put(case_data, "name", table_values[1].words))

\* lines 34-36
related_cases(table) ==
    LET tds == SelectSeq(Cells(table.rows), IsTd) IN [i \in 1..Len(tds) |-> tds[i].words]

\* lines 155-159: every string of the table
AllTexts(table) ==
    (IF table.caption = <<>> THEN <<>> ELSE <<table.caption>>) \o RowTexts(Cells(table.rows))

ChargeKeys == <<"charges", "statute", "level", "date">>

\* lines 160-170: one dict for every fifth string from the sixth on
charge_information(table) ==
    LET table_rows == AllTexts(table)
        starts == {i \in 5..(Len(table_rows) - 1) : i % 5 = 0}
        ordered == [n \in 1..Cardinality(starts) |-> 5 * n]
    IN  [n \in 1..Len(ordered) |->
            LET i == ordered[n]
                got == SubSeq(table_rows, i + 2, IF Len(table_rows) < i + 5 THEN Len(table_rows)
                                                 ELSE i + 5)
            IN  [k \in {ChargeKeys[j] : j \in 1..Len(got)} |->
                    got[CHOOSE j \in 1..Len(got) : ChargeKeys[j] = k]]]

\* lines 172-185 and 211-224: the strings of the rows that have a header cell
HeaderRowTexts(table) ==
    LET rows == SelectSeq(table.rows, HasTh) IN
    SelectSeq([i \in 1..Len(rows) |-> RowTexts(rows[i])], NonEmpty)

NoEvents == [other_events |-> <<>>, dispositions |-> <<>>]

\* the loop of lines 189-198: rows are popped off the end; a marker row moves
\* SECTION on or stops the loop and is not kept
RECURSIVE EventScan(_, _, _)
EventScan(table_rows, SECTION, acc) ==
    IF table_rows = <<>> THEN acc
    ELSE LET row == table_rows[Len(table_rows)]
             rest == SubSeq(table_rows, 1, Len(table_rows) - 1)
         IN  IF row[1] = <<"OTHER EVENTS AND HEARINGS">> THEN EventScan(rest, "dispositions", acc)
             ELSE IF row[1] = <<"DISPOSITIONS">> THEN acc
             ELSE EventScan(rest, SECTION, [acc EXCEPT ![SECTION] = Append(@, row)])

\* the two lists left in the order the rows were popped
EventSectionsPopped(table_rows) == EventScan(table_rows, "other_events", NoEvents)

\* lines 186-200
EventSections(table_rows) ==
    LET popped == EventScan(table_rows, "other_events", NoEvents) IN
    [other_events |-> Reverse(popped.other_events),
     dispositions |-> Reverse(popped.dispositions)]

WaiverPhrase == <<"waiver", "of", "right", "to", "counsel">>

\* the rows whose text line 206 searches for the waiver
WaiverRows(sections) == sections.other_events

\* lines 171-209
events(table, case_data) ==
    LET sections == EventSections(HeaderRowTexts(table))
        with_rows == Put(Put(case_data, "other events and hearings", sections.other_events),
                         "dispositions", sections.dispositions)
    IN  IF "party information" \notin DOMAIN case_data THEN Raised("KeyError")
        ELSE IF with_rows["party information"]["appointed or retained"] = <<>>
                /\ HoldsLower(WaiverRows(sections), WaiverPhrase)
        THEN Parsed([with_rows EXCEPT !["party information"]["appointed or retained"] =
                                          <<"Waived", "right", "to", "counsel">>])
        ELSE Parsed(with_rows)

\* lines 211-231
financial_information(table) ==
    LET table_rows == HeaderRowTexts(table) IN
    IF Len(table_rows) < 4 \/ \E r \in 2..4 : Len(table_rows[r]) < 2 THEN Raised("IndexError")
    ELSE Parsed([k \in {"total financial assessment", "total payments and credits",
                        "balance due", "transactions"} |->
                   CASE k = "total financial assessment" -> table_rows[2][2]
                     [] k = "total payments and credits" -> table_rows[3][2]
                     [] k = "balance due" -> table_rows[4][2]
                     [] OTHER -> SubSeq(table_rows, 5, Len(table_rows))])

\* one pass of the loop of line 17
ParseTable(table, case_data) ==
    CASE TableClass(table) = "header" -> header(table, case_data)
      [] TableClass(table) = "related" ->
            Parsed(Put(case_data, "related cases", related_cases(table)))
      [] TableClass(table) = "party" ->
            LET party == party_information(table) IN
            IF party.error # "" THEN party
            ELSE Parsed(Put(case_data, "party information", party.data))
      [] TableClass(table) = "charge" ->
            Parsed(Put(case_data, "charge information", charge_information(table)))
      [] TableClass(table) = "events" -> events(table, case_data)
      [] TableClass(table) = "financial" ->
            LET financial == financial_information(table) IN
            IF financial.error # "" THEN financial
            ELSE Parsed(Put(case_data, "financial information", financial.data))
      [] OTHER -> Parsed(case_data)

RECURSIVE ParseTables(_, _)
ParseTables(root_tables, case_data) ==
    IF root_tables = <<>> THEN Parsed(case_data)
    ELSE LET step == ParseTable(root_tables[1], case_data) IN
         IF step.error # "" THEN step ELSE ParseTables(Tail(root_tables), step.data)

\* a case page as parse reads it: the case number element (0: none) and the
\* tables that are children of <body>
CasePage(case_no, tables) == [case_no |-> case_no, tables |-> tables]

\* parse: the record, or the exception raised
parse(case_soup) ==
    IF case_soup.case_no = 0 THEN Raised("IndexError")
    ELSE ParseTables(case_soup.tables, [k \in {"code"} |-> case_soup.case_no])

\* ------------------------------------------------------ the worker process
\* The module globals SESSION and CONTAINER_CLIENT_HTML (None at import), and
\* the invocations of main the host runs in the process, which it may run on
\* several threads at once.  An object is named by the number of the
\* constructor call that made it.
MaxInvocations == 2
Invocations == 1..MaxInvocations

FreshWorker ==
    [SESSION |-> None,
     CONTAINER_CLIENT_HTML |-> None,
     sessions |-> 0,       \* calls of initialize_session so far
     clients |-> 0,        \* calls of initialize_blob_container_client so far
     at |-> [i \in Invocations |-> "idle"],
     used |-> [i \in Invocations |-> [session |-> 0, client |-> 0]]]   \* 0: none yet

\* the host calls main
Invoke(i) ==
    /\ worker.at[i] = "idle"
    /\ worker' = [worker EXCEPT !.at[i] = "test_client"]
    /\ UNCHANGED <<fvars, mvars, w_log, h_in, h_out, p_in, p_out>>

\* line 49: `if CONTAINER_CLIENT_HTML == None`
TestClient(i) ==
    /\ worker.at[i] = "test_client"
    /\ worker' = [worker EXCEPT !.at[i] = IF worker.CONTAINER_CLIENT_HTML = None
                                          THEN "init_client" ELSE "test_session"]
    /\ UNCHANGED <<fvars, mvars, w_log, h_in, h_out, p_in, p_out>>

\* line 50: the client is constructed and stored in the global
InitClient(i) ==
    /\ worker.at[i] = "init_client"
    /\ worker' = [worker EXCEPT !.clients = @ + 1,
                                !.CONTAINER_CLIENT_HTML = Some(worker.clients + 1),
                                !.at[i] = "test_session"]
    /\ UNCHANGED <<fvars, mvars, w_log, h_in, h_out, p_in, p_out>>

\* line 54: `if SESSION == None`
TestSession(i) ==
    /\ worker.at[i] = "test_session"
    /\ worker' = [worker EXCEPT !.at[i] = IF worker.SESSION = None
                                          THEN "init_session" ELSE "requests"]
    /\ UNCHANGED <<fvars, mvars, w_log, h_in, h_out, p_in, p_out>>

\* line 55: the session is constructed and stored in the global
InitSession(i) ==
    /\ worker.at[i] = "init_session"
    /\ worker' = [worker EXCEPT !.sessions = @ + 1,
                                !.SESSION = Some(worker.sessions + 1),
                                !.at[i] = "requests"]
    /\ UNCHANGED <<fvars, mvars, w_log, h_in, h_out, p_in, p_out>>

\* the rest of main reads the globals where it hands them on: session=SESSION
\* from line 80 on, for the requests
UseSession(i) ==
    /\ worker.at[i] = "requests"
    /\ worker' = [worker EXCEPT !.used[i].session = worker.SESSION[1],
                                !.at[i] = "write"]
    /\ UNCHANGED <<fvars, mvars, w_log, h_in, h_out, p_in, p_out>>

\* container_client=CONTAINER_CLIENT_HTML at lines 190 and 265, for the write
UseClient(i) ==
    /\ worker.at[i] = "write"
    /\ worker' = [worker EXCEPT !.used[i].client = worker.CONTAINER_CLIENT_HTML[1],
                                !.at[i] = "returned"]
    /\ UNCHANGED <<fvars, mvars, w_log, h_in, h_out, p_in, p_out>>

\* ------------------------------------------------------- specifications
IdleMain ==
    /\ base_url = [host |-> "", slash |-> TRUE]
    /\ odyssey_version = 0
    /\ notes = <<>>
    /\ search_url = [path |-> "", id |-> 0]
    /\ harvested = <<>>
    /\ hidden_values = <<>>
    /\ judicial_officer_to_ID = <<>>
    /\ day = 0
    /\ jo = 0
    /\ searches = <<>>
    /\ case_list = 0
    /\ case_idx = 0
    /\ case_html = None
    /\ sink = {}
    /\ queue = None
    /\ issued = {}

\* no function is being called on its own
IdleUnits ==
    /\ w_log = <<>>
    /\ h_in = None
    /\ h_out = None
    /\ p_in = None
    /\ p_out = None
    /\ worker = FreshWorker

\* A call of request_page_with_retry on its own, with any arguments.
InitFetch ==
    /\ fpc = "active"
    /\ f_url = "page"
    /\ f_verif \in {"", "Marker"}
    /\ f_data = NoData
    /\ f_max \in 0..MaxRetriesBound
    /\ f_ms \in MsWaits
    /\ f_i = 0
    /\ f_hist = <<>>
    /\ f_resp = None
    /\ f_ret = None
    /\ slept = <<>>
    /\ debugFile = None
    /\ err = ""
    /\ pc = "none"
    /\ county = "hays"
    /\ start_date = 1
    /\ end_date = 1
    /\ judicial_officers = <<>>
    /\ is_test = FALSE
    /\ IdleMain
    /\ IdleUnits

NextFetch == request_page_with_retry

SpecFetch == InitFetch /\ [][NextFetch]_vars

\* A run of main on a fresh worker, with any request body.
Init ==
    /\ fpc = "idle"
    /\ f_url = ""
    /\ f_verif = ""
    /\ f_data = NoData
    /\ f_max = DefaultMaxRetries
    /\ f_ms = DefaultMsWait
    /\ f_i = 0
    /\ f_hist = <<>>
    /\ f_resp = None
    /\ f_ret = None
    /\ slept = <<>>
    /\ debugFile = None
    /\ err = ""
    /\ pc = "start"
    /\ county \in Counties
    /\ start_date = 1
    /\ end_date \in 0..MaxDays
    /\ judicial_officers \in RequestedOfficerLists
    /\ is_test \in BOOLEAN
    /\ IdleMain
    /\ IdleUnits

\* Calls of write_string_to_blob on their own, on a container that starts empty.
MaxWrites == 3
BlobName(h) == [case_no |-> 1, county |-> "hays", date |-> 1, file_hash |-> h]
BlobNames == {BlobName(1), BlobName(2)}
BlobContents == {"html a", "html b"}

\* no call of request_page_with_retry and no run of main
NoRun ==
    /\ fpc = "idle"
    /\ f_url = ""
    /\ f_verif = ""
    /\ f_data = NoData
    /\ f_max = DefaultMaxRetries
    /\ f_ms = DefaultMsWait
    /\ f_i = 0
    /\ f_hist = <<>>
    /\ f_resp = None
    /\ f_ret = None
    /\ slept = <<>>
    /\ debugFile = None
    /\ err = ""
    /\ pc = "none"
    /\ county = "hays"
    /\ start_date = 1
    /\ end_date = 1
    /\ judicial_officers = <<>>
    /\ is_test = FALSE
    /\ IdleMain

InitBlob == NoRun /\ IdleUnits

WriteBlob ==
    /\ Len(w_log) < MaxWrites
    /\ \E blob_name \in BlobNames, contents \in BlobContents, overwrite \in BOOLEAN :
          LET r == write_string_to_blob(contents, blob_name, sink, overwrite) IN
          /\ sink' = r.container
          /\ w_log' = Append(w_log, [name |-> blob_name, contents |-> contents,
                                     overwrite |-> overwrite,
                                     existed |-> exists(blob_name, sink),
                                     ret |-> r.ret, error |-> r.error])
    /\ UNCHANGED <<fvars, pc, reqvars, csvvars, search_url, harvested, hidden_values,
                   judicial_officer_to_ID, loopvars, queue, issued>>
    /\ UNCHANGED <<h_in, h_out, p_in, p_out, worker>>

NextBlob == WriteBlob

SpecBlob == InitBlob /\ [][NextBlob]_vars

\* Calls of hash_case_html on their own: on a document, and on the same document
\* with other content in its last table.
MaxTables == 2
TableContents == {1, 2}
InnerTables == {Table(b, c, None) : b \in BOOLEAN, c \in TableContents}
Tables ==
    {Table(b, c, i) : b \in BOOLEAN, c \in TableContents,
                      i \in {None} \cup {Some(t) : t \in InnerTables}}
Bodies == {None} \cup {Some(ts) : ts \in SeqsUpTo(Tables, MaxTables)}
Documents == {Document(n, b, t) : n \in CaseNumbers, b \in Bodies, t \in {0, 1}}

\* the document with content c in its last table
WithLastTable(d, c) ==
    IF d.body = None \/ d.body = Some(<<>>) THEN d
    ELSE LET tables == d.body[1]
             top == tables[Len(tables)]
             changed == IF top.inner # None
                        THEN [top EXCEPT !.inner = Some([top.inner[1] EXCEPT !.content = c])]
                        ELSE [top EXCEPT !.content = c]
         IN  [d EXCEPT !.body = Some([tables EXCEPT ![Len(tables)] = changed])]

InitHash ==
    /\ NoRun
    /\ w_log = <<>>
    /\ h_in \in {<<d, WithLastTable(d, c)>> : d \in Documents, c \in TableContents}
    /\ h_out = None
    /\ p_in = None
    /\ p_out = None
    /\ worker = FreshWorker

HashBoth ==
    /\ h_out = None
    /\ h_out' = Some(<<hash_case_html(h_in[1]), hash_case_html(h_in[2])>>)
    /\ UNCHANGED <<fvars, mvars, w_log, h_in, p_in, p_out, worker>>

NextHash == HashBoth

SpecHash == InitHash /\ [][NextHash]_vars

\* Calls of parse on their own.
MaxPartyRows == 3
MaxRootTables == 3

\* a row of plain cells, and a row of header cells, with the given strings
Tds(strings) == [i \in 1..Len(strings) |-> Node("td", FALSE, strings[i])]
Ths(strings) == [i \in 1..Len(strings) |-> Node("th", FALSE, strings[i])]

StateRow == Tds(<< <<"State">>, <<"State", "of", "Texas">>, <<"Atty", "Name">>, <<"555-0000">> >>)
BondsmanRow == Tds(<< <<"Bondsman">>, <<"ABC", "Bonds">> >>)
LeadRow == Ths(<< <<"Lead", "Attorneys">> >>)
AddressRow == Tds(<< <<"123", "Main">>, <<"Austin">>, <<"SID">>, <<"TX0001">> >>)
DefendantStrings ==
    << <<"Defendant">>, <<"Jane", "Doe">>, <<"Female", "White">>, <<"DOB:", "1/1/1990">>,
       <<"5'4", ",", "120", "lbs">>, <<"Defense", "Atty">>, <<"Retained">>, <<"555-1111">> >>
\* the defendant row cut after its n-th string
DefendantRow(n) == Tds(SubSeq(DefendantStrings, 1, n))

PartyRowSet ==
    {StateRow, BondsmanRow, LeadRow, AddressRow,
     DefendantRow(8), DefendantRow(4), DefendantRow(3), DefendantRow(2),
     \* the attorney's cells out of place, in capitals, or inside a sentence
     Tds(SubSeq(DefendantStrings, 1, 6) \o << <<"Extra">>, <<"Appointed">>, <<"retained">> >>),
     Tds(SubSeq(DefendantStrings, 1, 6) \o << <<"COURT", "APPOINTED">> >>),
     Tds(SubSeq(DefendantStrings, 1, 6) \o << <<"Defendant", "is", "Pro", "Se">> >>)}

PartyTable(rows) == HtmlTable(<<"Party Information">>, rows)

\* parse given a page whose only root table is a party table
InitParty ==
    /\ NoRun
    /\ w_log = <<>>
    /\ h_in = None
    /\ h_out = None
    /\ p_in \in {CasePage(1, <<PartyTable(rows)>>) : rows \in SeqsUpTo(PartyRowSet, MaxPartyRows)}
    /\ p_out = None
    /\ worker = FreshWorker

EventRow(strings) == <<Node("th", FALSE, strings[1])>> \o Tds(Tail(strings))
DispositionsMarker == Ths(<< <<"DISPOSITIONS">> >>)
OtherEventsMarker == Ths(<< <<"OTHER EVENTS AND HEARINGS">> >>)
PleaRow == EventRow(<< <<"01/02/2020">>, <<"Plea">> >>)
HearingRow == EventRow(<< <<"01/03/2020">>, <<"Hearing">> >>)
WaiverRow == EventRow(<< <<"01/01/2020">>, <<"Waiver", "of", "Right", "to", "Counsel">> >>)
WaiverRowUpper == EventRow(<< <<"01/01/2020">>, <<"WAIVER", "OF", "RIGHT", "TO", "COUNSEL">> >>)
\* a row without header cell: it is not collected
WaiverDetailRow == Tds(<< <<"waiver", "of", "right", "to", "counsel">> >>)

EventsTable(rows) == HtmlTable(<<"Events & Orders of the Court">>, rows)

RootTables ==
    { HtmlTable(<<>>, <<Ths(<< <<"Case Type:">> >>) \o
                        <<Node("td", TRUE, <<"The", "State", "of", "Texas", "vs.", "Jane", "Doe">>),
                          Node("td", TRUE, <<"Misdemeanor">>)>>,
                       Ths(<< <<"Date Filed:">> >>) \o <<Node("td", TRUE, <<"01/01/2020">>)>> >>),
      HtmlTable(<<"Related Case Information">>, <<Tds(<< <<"20-0001">> >>)>>),
      PartyTable(<<LeadRow, DefendantRow(8), StateRow>>),
      PartyTable(<<LeadRow, DefendantRow(4), StateRow>>),
      HtmlTable(<<"Charge Information">>,
                <<Ths(<< <<"Charges:">>, <<"Statute">>, <<"Level">>, <<"Date">> >>),
                  Tds(<< <<"1.">>, <<"THEFT">>, <<"31.03">>, <<"Class", "B">>, <<"01/01/2020">> >>)>>),
      EventsTable(<<DispositionsMarker, PleaRow, OtherEventsMarker, WaiverRow>>),
      EventsTable(<<DispositionsMarker, WaiverRowUpper, OtherEventsMarker, HearingRow>>),
      EventsTable(<<DispositionsMarker, PleaRow, OtherEventsMarker, HearingRow, WaiverDetailRow>>),
      HtmlTable(<<"Financial Information">>,
                <<Ths(<< <<"Defendant">>, <<"Jane", "Doe">> >>),
                  Ths(<< <<"Total", "Financial", "Assessment">>, <<"300.00">> >>),
                  Ths(<< <<"Total", "Payments", "and", "Credits">>, <<"100.00">> >>),
                  Ths(<< <<"Balance", "Due">>, <<"200.00">> >>)>>),
      HtmlTable(<<"Navigation">>, <<>>),
      \* tables that match a phrase and lack a row or a cell
      PartyTable(<<StateRow>>),
      PartyTable(<<DefendantRow(8), StateRow>>),
      HtmlTable(<<"Financial Information">>,
                <<Ths(<< <<"Defendant">>, <<"Jane", "Doe">> >>),
                  Ths(<< <<"Total", "Financial", "Assessment">>, <<"300.00">> >>),
                  Ths(<< <<"Total", "Payments", "and", "Credits">>, <<"100.00">> >>)>>),
      HtmlTable(<<>>, <<<<Node("th", FALSE, <<>>),
                          Node("td", TRUE, <<"The", "State", "of", "Texas", "vs.", "Jane", "Doe">>),
                          Node("td", TRUE, <<"CR-1">>)>>,
                        Ths(<< <<"Case Type:">> >>) \o <<Node("td", TRUE, <<"Misdemeanor">>)>>,
                        Ths(<< <<"Date Filed:">> >>) \o <<Node("td", TRUE, <<"01/01/2020">>)>> >>) }

\* parse given a page with any root tables in any order
InitParse ==
    /\ NoRun
    /\ w_log = <<>>
    /\ h_in = None
    /\ h_out = None
    /\ p_in \in {CasePage(n, tables) : n \in CaseNumbers,
                                        tables \in SeqsUpTo(RootTables, MaxRootTables)}
    /\ p_out = None
    /\ worker = FreshWorker

\* parse given a page with a party table and then an events table of any rows
MaxEventRows == 6
EventRowSet == {DispositionsMarker, OtherEventsMarker, PleaRow, HearingRow, WaiverDetailRow}

InitEvents ==
    /\ NoRun
    /\ w_log = <<>>
    /\ h_in = None
    /\ h_out = None
    /\ p_in \in {CasePage(1, <<PartyTable(<<LeadRow, DefendantRow(8), StateRow>>),
                                EventsTable(rows)>>) :
                    rows \in SeqsUpTo(EventRowSet, MaxEventRows)}
    /\ p_out = None
    /\ worker = FreshWorker

Parse ==
    /\ p_in # None /\ p_out = None
    /\ p_out' = Some(parse(p_in))
    /\ UNCHANGED <<fvars, mvars, w_log, h_in, h_out, p_in, worker>>

NextParse == Parse

SpecParty == InitParty /\ [][NextParse]_vars

SpecParse == InitParse /\ [][NextParse]_vars

SpecEvents == InitEvents /\ [][NextParse]_vars

\* Invocations of main in one worker process, in any interleaving.
InitWorker == NoRun /\ IdleUnits

NextWorker ==
    \E i \in Invocations :
        \/ Invoke(i)
        \/ TestClient(i)
        \/ InitClient(i)
        \/ TestSession(i)
        \/ InitSession(i)
        \/ UseSession(i)
        \/ UseClient(i)

SpecWorker == InitWorker /\ [][NextWorker]_vars

Next ==
    \/ MainStart
    \/ AfterLogin
    \/ AfterMainPage
    \/ AfterSearchPage
    \/ AfterSearch
    \/ AfterRead
    \/ AfterCaseDetail
    \/ AfterFinancial
    \/ request_page_with_retry

Spec == Init /\ [][Next]_vars

\* A run of main that goes on as long as it has a step to take: the interpreter
\* runs main to its return or to an exception, and every request is answered.
SpecRun == Init /\ [][Next]_vars /\ WF_vars(Next)

\* ================================================================ claims
AllNonSuccess == \A k \in 1..Len(f_hist) : ~f_hist[k].ok
AllLackMarker == \A k \in 1..Len(f_hist) : ~f_hist[k].has

\* C1: a call whose responses all have a non-success status issues exactly
\* max_retries + 1 requests and then fails; it never issues more and never
\* returns content.
C1_AlwaysFailingMakesMaxPlusOneRequests ==
    AllNonSuccess =>
        /\ Len(f_hist) <= f_max + 1
        /\ fpc # "returned" /\ f_ret = None
        /\ (fpc = "raised") <=> (Len(f_hist) = f_max + 1)

C1_Witness ==
    /\ fpc = "raised" /\ AllNonSuccess
    /\ f_max = MaxRetriesBound /\ Len(f_hist) = MaxRetriesBound + 1

\* C2: a returned value is the body of the last response received, which had a
\* success status and holds the verification text when one was given; a call
\* that ended otherwise raised and returned nothing.
C2_NoPartialSuccess ==
    /\ fpc = "returned" =>
          /\ f_ret = Some(f_resp[1].text)
          /\ f_resp[1].ok
          /\ f_hist[Len(f_hist)].ok
          /\ Truthy(f_verif) => Contains(f_resp[1].text, f_verif)
          /\ err = "" /\ debugFile = None
    /\ fpc # "returned" => f_ret = None
    /\ fpc = "raised" => err # ""

C2_Witness ==
    /\ fpc = "returned" /\ Truthy(f_verif) /\ Len(f_hist) > 1
    /\ f_ret = Some(PlainBody({"Marker"}, NBodies))

\* C3: a success-status response without the (non-empty) verification text ends
\* the call with an exception at once: it is the last response of the call,
\* whatever is left of the retry budget.
C3_UnverifiedSuccessIsTerminal ==
    \A k \in 1..Len(f_hist) :
        (Truthy(f_verif) /\ f_hist[k].ok /\ ~f_hist[k].has) =>
            /\ k = Len(f_hist)
            /\ fpc = "raised"
            /\ f_ret = None

C3_Witness ==
    /\ fpc = "raised" /\ Truthy(f_verif)
    /\ f_hist[Len(f_hist)].ok
    /\ f_i < f_max

\* C4 as claimed: with every response lacking the marker the call fails, and
\* only after max_retries + 1 attempts.
C4_FailsOnlyAfterBudget ==
    (Truthy(f_verif) /\ AllLackMarker) =>
        /\ fpc # "returned"
        /\ fpc = "raised" => Len(f_hist) = f_max + 1

\* C4 amended: with every response lacking the marker the call fails: after
\* max_retries + 1 attempts when every response had a non-success status, and at
\* the first success-status response otherwise.
C4_FailsAtBudgetOrFirstSuccess ==
    (Truthy(f_verif) /\ AllLackMarker) =>
        /\ fpc # "returned"
        /\ (fpc = "raised" /\ AllNonSuccess) => Len(f_hist) = f_max + 1
        /\ (fpc = "raised" /\ ~AllNonSuccess) =>
              /\ f_hist[Len(f_hist)].ok
              /\ \A k \in 1..(Len(f_hist) - 1) : ~f_hist[k].ok
        /\ fpc = "active" => (AllNonSuccess /\ Len(f_hist) <= f_max)

C4_Witness ==
    /\ fpc = "raised" /\ Truthy(f_verif) /\ AllLackMarker
    /\ f_hist[Len(f_hist)].ok
    /\ 1 < Len(f_hist) /\ Len(f_hist) < f_max + 1

\* ---- claims about main
DebugMessages == {DebugMessage("x"), DebugMessage("")}

\* the body a failure of the debug-writing kind is about: the last response of
\* the failed call, or the main page find_search_url found no link in
Offending == IF fpc = "raised" THEN f_resp[1].text ELSE f_ret[1]

\* C5: when the run has failed for an exhausted retry budget, for a missing
\* verification text or for a missing court-calendar link, data/debug.html holds
\* the body of the last response or page involved.
C5_DebugFileHoldsOffendingBody ==
    (pc = "failed" /\ err \in DebugMessages) =>
        /\ debugFile # None
        /\ debugFile = Some(Offending)

C5_Witness ==
    /\ pc = "failed" /\ fpc = "returned" /\ f_url = "main_page"
    /\ Len(f_ret[1].anchors) > 0
    /\ debugFile = Some(f_ret[1])

SearchPosted == f_url = "search" /\ fpc # "idle"

\* the fields create_search_form_data sets itself (modern form)
QueryFields ==
    {"SearchCriteria.SelectedHearingType", "SearchCriteria.SearchByType",
     "SearchCriteria.SelectedJudicialOfficer", "SearchCriteria.DateFrom",
     "SearchCriteria.DateTo"}

\* C6 as claimed: a search is posted only after the search page was fetched and
\* its hidden inputs harvested, and its form data holds every harvested pair.
C6_SearchCarriesEveryHarvestedPair ==
    SearchPosted =>
        /\ "search_page" \in issued
        /\ \A k \in DOMAIN harvested : k \in DOMAIN f_data /\ f_data[k] = harvested[k]

\* C6 amended: a search is posted only after the search page was fetched and its
\* hidden inputs harvested; its form data holds every harvested name, with the
\* harvested value unless the name is SearchCriteria.SelectedCourt (which takes
\* the harvested default location) or a field the submission sets itself.
C6_SearchCarriesHarvestedPairsNotOverridden ==
    SearchPosted =>
        /\ "search_page" \in issued
        /\ "Settings.DefaultLocation" \in DOMAIN harvested
        /\ \A k \in DOMAIN harvested :
              /\ k \in DOMAIN f_data
              /\ k \notin (QueryFields \cup {"SearchCriteria.SelectedCourt"})
                    => f_data[k] = harvested[k]
        /\ f_data["SearchCriteria.SelectedCourt"] = harvested["Settings.DefaultLocation"]
        /\ f_data["SearchCriteria.DateFrom"] = DateString(day)

C6_Witness ==
    /\ SearchPosted /\ fpc = "returned"
    /\ DOMAIN harvested = {"Settings.DefaultLocation", "SearchCriteria.SelectedCourt"}
    /\ harvested["SearchCriteria.SelectedCourt"] = Str("all courts")
    /\ f_data["Settings.DefaultLocation"] = Str("court1")
    /\ f_data["SearchCriteria.SelectedCourt"] = Str("court1")

\* the notes have the shape MARKER#user/pass#...: a second "#" follows the first,
\* and exactly one "/" stands between the two
FirstHash(n, i) == n[i] = "#" /\ \A j \in 1..(i - 1) : n[j] # "#"
LoginShape(n) ==
    \E i \in 1..Len(n) : \E k \in (i + 1)..Len(n) :
        /\ FirstHash(n, i)
        /\ n[k] = "#" /\ \A j \in (i + 1)..(k - 1) : n[j] # "#"
        /\ Cardinality({j \in (i + 1)..(k - 1) : n[j] = "/"}) = 1

MalformedNotes(c) ==
    c \in DOMAIN CountyData /\ HasLoginMarker(CountyData[c].notes)
                            /\ ~LoginShape(CountyData[c].notes)

NoNetworkActivity == issued = {} /\ fpc = "idle" /\ pc \in {"start", "failed"}

\* C7 as claimed: an unknown jurisdiction, or notes of either generation with
\* the login marker but not the login shape, end the run before any request.
C7_MalformedConfigurationBeforeNetwork ==
    (county \notin DOMAIN CountyData \/ MalformedNotes(county)) => NoNetworkActivity

\* C7 amended: an unknown jurisdiction, or notes of a legacy profile with the
\* login marker but not the login shape, end the run before any request; the
\* notes of a modern profile are never read.
C7_LegacyMalformedConfigurationBeforeNetwork ==
    /\ (county \notin DOMAIN CountyData
        \/ (MalformedNotes(county) /\ CountyData[county].version < ModernVersion))
          => NoNetworkActivity
    /\ (county \in DOMAIN CountyData /\ CountyData[county].version >= ModernVersion)
          => "login" \notin issued /\ err # "NOTES section is malformed"

C7_Witness ==
    /\ pc = "failed" /\ MalformedNotes(county) /\ odyssey_version < ModernVersion
    /\ issued = {} /\ err = "NOTES section is malformed"

NoCalendarLink(page) == \A i \in 1..Len(page.anchors) : ~page.anchors[i].label

\* C8: a legacy run whose main page has no anchor with the court-calendar label
\* fails there, and neither then nor later fetches a search page, posts a
\* search, fetches a case, writes to the sink or enqueues.
C8_NoCalendarLinkIsTerminal ==
    [][ /\ (pc = "await_main" /\ fpc = "returned" /\ NoCalendarLink(f_ret[1]))
            => (pc' = "failed" /\ fpc' = fpc /\ issued' = issued)
        /\ (pc = "failed") => UNCHANGED vars
        /\ (pc' = "failed" /\ f_url' = "main_page") =>
              /\ issued' \subseteq {"login", "main_page"}
              /\ sink' = {} /\ queue' = None
      ]_vars

C8_Witness ==
    /\ pc = "failed" /\ f_url = "main_page" /\ fpc = "returned"
    /\ odyssey_version < ModernVersion
    /\ Len(f_ret[1].anchors) = MaxAnchors /\ NoCalendarLink(f_ret[1])
    /\ f_ret[1].anchors[1].page = 1
    /\ issued = {"login", "main_page"} /\ sink = {} /\ queue = None

FetchingInline == pc \in {"await_detail", "await_financial"}

\* C9: a result set at or below the inline threshold, or of a test run, is
\* fetched inline and nothing is enqueued for it; a larger one of a run that is
\* no test is handed to the queue in batches and none of its cases is fetched
\* inline.
C9_PartitioningPolicy ==
    /\ (FetchingInline /\ (case_list <= InlineThreshold \/ is_test)) => queue = None
    /\ (case_list > InlineThreshold /\ ~is_test) => (~FetchingInline /\ queue # None)

RECURSIVE Concat(_)
Concat(batches) ==
    IF batches = <<>> THEN <<>> ELSE batches[1] \o Concat(Tail(batches))

\* C10: the batches made of a result set above the inline threshold, taken in
\* order, concatenate to the references of the result set, and none holds more
\* than the configured batch size.
C10_BatchesCoverReferences ==
    (case_list > InlineThreshold /\ ~is_test) =>
        /\ queue # None
        /\ Concat(queue[1]) = [i \in 1..case_list |-> i]
        /\ \A b \in 1..Len(queue[1]) : Len(queue[1][b]) <= CASE_BATCH_SIZE

\* ---- end-to-end scenarios
LegacyRun == odyssey_version # 0 /\ odyssey_version < ModernVersion
Ended == pc \in {"done", "failed"}

\* the run was stopped by the portal: a fetch failed terminally, or a page lacked
\* what the scraper reads of it (calendar link, href id, value of a hidden input)
StoppedByPortal ==
    \/ fpc = "raised"
    \/ err \in {DebugMessage("Court Calendar link"), "IndexError: href", "KeyError: value"}

\* len(range(0, n, size))
BatchCount(n, size) == (n + size - 1) \div size

\* C11: a run for the legacy jurisdiction "hays" that is no test and that the
\* portal did not stop has posted its search when it ends; when the search yielded more references than the
\* inline threshold, the queue then holds ceil(references / batch size) batch
\* messages and no case was fetched inline.
C11_LegacyBatchingScenario ==
    (county = "hays" /\ LegacyRun /\ ~is_test /\ Ended /\ ~StoppedByPortal) =>
        /\ "search" \in issued
        /\ case_list > InlineThreshold =>
              /\ queue # None
              /\ Len(queue[1]) = BatchCount(case_list, CASE_BATCH_SIZE)
              /\ "case_detail" \notin issued

\* C12: a run for the legacy jurisdiction "hays" over one day that the portal
\* did not stop has posted its search when it ends, and ends normally with one document in the sink per case
\* reference of an inline result set and with nothing enqueued.
C12_LegacyInlineScenario ==
    (county = "hays" /\ LegacyRun /\ end_date = start_date /\ Ended /\ ~StoppedByPortal) =>
        /\ "search" \in issued
        /\ pc = "done"
        /\ queue = None
        /\ case_list <= InlineThreshold =>
              \A b \in sink : b.name.county = county /\ b.name.date = start_date

\* C13: in a test run of either generation at most one case document is ever in
\* the sink; the step that writes it ends the run without starting a request,
\* and once it is written nothing changes any more: no request, no write, no
\* enqueue.
C13_TestRunStopsAfterFirstCase ==
    [][ is_test =>
          /\ Cardinality(sink') <= 1
          /\ sink' # sink => (pc' = "done" /\ fpc' = fpc /\ issued' = issued /\ queue' = None)
          /\ sink # {} => UNCHANGED vars
      ]_vars

C13_Witness ==
    /\ is_test /\ pc = "done" /\ Cardinality(sink) = 1
    /\ case_list = MaxRefs /\ case_idx = 1
    /\ day = start_date /\ end_date > start_date

\* ---- the sink
\* the first call of the log that wrote under the name
FirstWrite(name) ==
    w_log[CHOOSE i \in 1..Len(w_log) :
             /\ w_log[i].name = name
             /\ \A j \in 1..(i - 1) : w_log[j].name # name]

OnlyPlainWrites == \A i \in 1..Len(w_log) : ~w_log[i].overwrite

\* C14: a write with overwrite=false to a key that exists returns False and
\* raises nothing, and to a key that does not exist returns True; after any
\* sequence of such writes the sink holds exactly one blob for each key written,
\* with the content of the first write to that key (so a repeated write of the
\* same key adds no blob and changes none).
C14_PlainWriteIsIdempotentSkip ==
    /\ \A i \in 1..Len(w_log) :
          ~w_log[i].overwrite =>
              /\ w_log[i].error = ""
              /\ w_log[i].ret = Some(~w_log[i].existed)
    /\ OnlyPlainWrites =>
          /\ {b.name : b \in sink} = {w_log[i].name : i \in 1..Len(w_log)}
          /\ \A b \in sink : b.contents = FirstWrite(b.name).contents
          /\ \A b, c \in sink : b.name = c.name => b = c

C14_Witness ==
    /\ Len(w_log) = MaxWrites /\ OnlyPlainWrites
    /\ w_log[1].name = w_log[MaxWrites].name
    /\ w_log[1].contents # w_log[MaxWrites].contents
    /\ w_log[MaxWrites].ret = Some(FALSE)
    /\ sink = {[name |-> w_log[1].name, contents |-> w_log[1].contents]}

\* ---- the fingerprint
HasLastTable(d) == d.body # None /\ d.body # Some(<<>>)

\* the storage key main forms of a fingerprint, for one jurisdiction and date
StorageKey(dict) ==
    [case_no |-> dict.case_no, county |-> "hays", date |-> 1, file_hash |-> dict.file_hash]

OnPage(name) == name \in DOMAIN judicial_officer_to_ID

\* the position of a search in the request: its day, then the place of its
\* officer in the list of officers
Position(q) ==
    <<q.day, CHOOSE k \in 1..Len(judicial_officers) : judicial_officers[k] = q.officer>>

\* C16: the searches a run has posted are each for a day from start_date to
\* end_date and an officer of the list who is on the search page, no pair twice,
\* days ascending and officers in list order within a day; each carries its
\* day and officer id; and a run outside test mode that ended without failure
\* has posted one for every such pair (an officer absent from the page has none).
C16_OneSearchPerDayAndOfficer ==
    /\ \A i \in 1..Len(searches) :
          /\ searches[i].day \in start_date..end_date
          /\ \E k \in 1..Len(judicial_officers) : judicial_officers[k] = searches[i].officer
          /\ OnPage(searches[i].officer)
    /\ \A i, j \in 1..Len(searches) :
          i < j => \/ Position(searches[i])[1] < Position(searches[j])[1]
                   \/ /\ Position(searches[i])[1] = Position(searches[j])[1]
                      /\ Position(searches[i])[2] < Position(searches[j])[2]
    /\ (SearchPosted /\ searches # <<>>) =>
          LET q == searches[Len(searches)] IN
          /\ f_data["SearchCriteria.DateFrom"] = DateString(q.day)
          /\ f_data["SearchCriteria.DateTo"] = DateString(q.day)
          /\ f_data["SearchCriteria.SelectedJudicialOfficer"] = judicial_officer_to_ID[q.officer]
    /\ (pc = "done" /\ ~is_test) =>
          \A d \in start_date..end_date : \A k \in 1..Len(judicial_officers) :
              OnPage(judicial_officers[k]) =>
                  \E i \in 1..Len(searches) :
                      searches[i] = [day |-> d, officer |-> judicial_officers[k]]

C16_Witness ==
    /\ pc = "done" /\ ~is_test
    /\ judicial_officers = <<"Judge Z", "Judge B">> /\ ~OnPage("Judge Z")
    /\ end_date = MaxDays
    /\ Len(searches) = MaxDays
    /\ searches[1] = [day |-> 1, officer |-> "Judge B"]
    /\ searches[MaxDays] = [day |-> MaxDays, officer |-> "Judge B"]

\* C17: the step in which a fetch fails terminally ends the run and writes and
\* enqueues nothing; after it nothing changes (no request, no sink write, no
\* enqueue); and the sink changes only when both fetches of a case have
\* returned, so a case whose fetch failed leaves no document.
C17_TerminalFailureAbortsRun ==
    [][ /\ fpc' = "raised" => (pc' = "failed" /\ sink' = sink /\ queue' = queue)
        /\ fpc = "raised" => UNCHANGED vars
        /\ sink' # sink =>
              /\ pc = "await_financial" /\ f_url = "financial" /\ fpc = "returned"
              /\ case_html # None
      ]_vars

C17_Witness ==
    /\ pc = "failed" /\ fpc = "raised" /\ f_url = "financial"
    /\ Len(f_hist) = DefaultMaxRetries + 1
    /\ case_html # None /\ case_idx > 1
    /\ Cardinality(sink) = 1 /\ day = start_date

\* ---- the legacy extractor
TableClasses == {"header", "related", "party", "charge", "events", "financial"}

\* the tables put in another order
Reordered(tables) ==
    {[i \in 1..Len(tables) |-> tables[f[i]]] : f \in Permutations(1..Len(tables))}

\* the tables with those of one class left out
Without(tables, class) == SelectSeq(tables, LAMBDA t : TableClass(t) # class)

OneTablePerClass(tables) ==
    \A i, j \in 1..Len(tables) :
        (i # j /\ TableClass(tables[i]) \in TableClasses)
            => TableClass(tables[i]) # TableClass(tables[j])

\* C18: when parse has returned the record of a page with at most one table of
\* each class, it returns the same record of the same tables in every other
\* order, and it still returns a record when the tables of any one class are
\* left out.
C18_ClassifiedByContentNotPosition ==
    (p_out # None /\ p_out[1].error = "" /\ OneTablePerClass(p_in.tables)) =>
        /\ \A tables \in Reordered(p_in.tables) :
              parse(CasePage(p_in.case_no, tables)) = p_out[1]
        /\ \A class \in TableClasses :
              parse(CasePage(p_in.case_no, Without(p_in.tables, class))).error = ""

\* the first strings of the rows of the party table of the page, top to bottom
RowHeads(page) ==
    LET table_rows == AllRowTexts(page.tables[1]) IN
    [i \in 1..Len(table_rows) |-> table_rows[i][1]]

\* what the claim says of a three-row party table whose rows are, top to
\* bottom, those of state, defendant and bondsman at the places given
SectionsNamedByRows(state, defendant, bondsman) ==
    LET table_rows == AllRowTexts(p_in.tables[1])
        sections == PartySections(table_rows)
    IN  /\ sections.state = <<table_rows[state]>>
        /\ sections.defendant = <<table_rows[defendant]>>
        /\ sections.bondsman = <<table_rows[bondsman]>>
        /\ table_rows[defendant][3] = <<"Female", "White">> =>
              /\ p_out[1].error = ""
              /\ p_out[1].data["party information"]["sex"] = <<"Female">>
              /\ p_out[1].data["party information"]["race"] = <<"White">>

\* C19 as claimed: of a party table whose rows, top to bottom, begin with
\* "State", "Defendant", "Bondsman", each row goes to the section its first cell
\* names, and sex "Female" and race "White" are recovered from a defendant row
\* whose third cell is "Female White".
C19_SectionsTopToBottom ==
    (p_out # None /\ RowHeads(p_in) = << <<"State">>, <<"Defendant">>, <<"Bondsman">> >>
                  /\ Len(AllRowTexts(p_in.tables[1])[2]) >= 3)
        => SectionsNamedByRows(1, 2, 3)

\* C19 amended: of a party table whose rows, top to bottom, begin with
\* "Bondsman", "Defendant", "State" (the rows are read from the bottom up), each
\* row goes to the section its first cell names, and sex "Female" and race
\* "White" are recovered from a defendant row whose third cell is "Female White"
\* and that has a fourth cell.
C19_SectionsBottomUp ==
    (p_out # None /\ RowHeads(p_in) = << <<"Bondsman">>, <<"Defendant">>, <<"State">> >>
                  /\ Len(AllRowTexts(p_in.tables[1])[2]) >= 4)
        => SectionsNamedByRows(3, 2, 1)

C19_Witness ==
    /\ p_out # None
    /\ p_in.tables[1].rows = <<BondsmanRow, DefendantRow(4), StateRow>>
    /\ p_out[1].error = ""
    /\ p_out[1].data["party information"]["race"] = <<"White">>
    /\ p_out[1].data["party information"]["bondsman"] = <<"ABC", "Bonds">>

\* the only table of the class among the root tables of the page
TheTable(page, class) ==
    page.tables[CHOOSE i \in 1..Len(page.tables) : TableClass(page.tables[i]) = class]

HasOne(page, class) ==
    Cardinality({i \in 1..Len(page.tables) : TableClass(page.tables[i]) = class}) = 1

\* every row the events branch collects, of either section
CollectedRows(table) ==
    LET sections == EventSections(HeaderRowTexts(table)) IN
    sections.other_events \o sections.dispositions

\* C20: of a page with one party table and one events table: when the party
\* table leaves "appointed or retained" empty and a collected row of the events
\* table, of either section, holds "waiver of right to counsel" in any case, the
\* record has "Waived right to counsel" there; a value the party table did not
\* leave empty is in the record as it was.
C20_WaiverOfCounsel ==
    (p_out # None /\ p_in.case_no # 0 /\ HasOne(p_in, "party") /\ HasOne(p_in, "events")
                  /\ party_information(TheTable(p_in, "party")).error = "") =>
        LET left == party_information(TheTable(p_in, "party")).data["appointed or retained"]
            waived == HoldsLower(CollectedRows(TheTable(p_in, "events")), WaiverPhrase)
        IN  /\ p_out[1].error = ""
            /\ (left = <<>> /\ waived) =>
                  p_out[1].data["party information"]["appointed or retained"]
                      = <<"Waived", "right", "to", "counsel">>
            /\ left # <<>> =>
                  p_out[1].data["party information"]["appointed or retained"] = left

\* the gaps: a party table without defendant row or with nothing above the
\* defendant row, a financial table of fewer than four rows, a header table
\* whose first label is empty
NoDefendantRow(table) ==
    /\ TableClass(table) = "party"
    /\ \A r \in 1..Len(AllRowTexts(table)) : AllRowTexts(table)[r][1] # <<"Defendant">>
NoRowAboveDefendant(table) ==
    /\ TableClass(table) = "party"
    /\ AllRowTexts(table) # <<>>
    /\ AllRowTexts(table)[1][1] = <<"Defendant">>
ShortFinancial(table) ==
    TableClass(table) = "financial" /\ Len(HeaderRowTexts(table)) < 4
BlankFirstLabel(table) ==
    /\ TableClass(table) = "header"
    /\ LET table_labels == SelectSeq(Cells(table.rows), IsTh) IN
       table_labels # <<>> /\ table_labels[1].words = <<>>
HasGap(table) ==
    NoDefendantRow(table) \/ NoRowAboveDefendant(table) \/ ShortFinancial(table)
        \/ BlankFirstLabel(table)

\* C21: a page that has its case number, no events table and a first table with
\* one of the gaps is parsed without an exception, and the tables after the
\* gap are processed (a related-cases table after it leaves its key).
C21_ExtractionGapsNeverAbort ==
    (/\ p_out # None
     /\ p_in.case_no # 0
     /\ p_in.tables # <<>>
     /\ HasGap(p_in.tables[1])
     /\ \A i \in 1..Len(p_in.tables) :
           /\ TableClass(p_in.tables[i]) # "events"
           /\ i > 1 => ~HasGap(p_in.tables[i]))
    => /\ p_out[1].error = ""
       /\ (\E i \in 1..Len(p_in.tables) : TableClass(p_in.tables[i]) = "related")
             => "related cases" \in DOMAIN p_out[1].data

\* C22: the n-th delay of a call is ms_wait * n, and a call that fails
\* terminally on non-success statuses has slept exactly max_retries times.
C22_LinearBackoff ==
    /\ \A n \in 1..Len(slept) : slept[n] = f_ms * n
    /\ (fpc = "raised" /\ AllNonSuccess) => Len(slept) = f_max

\* ---- the order of the requests
\* what a legacy run has sent before it asks for the main page
BeforeMainPage == IF HasLoginMarker(notes) THEN {"login"} ELSE {}

\* the place of a first request of kind u in a legacy run
LegacyOrder(u) ==
    CASE u = "login" -> issued = {} /\ HasLoginMarker(notes)
      [] u = "main_page" -> issued = BeforeMainPage
      [] u = "search_page" ->
            /\ issued = BeforeMainPage \cup {"main_page"}
            /\ search_url.path = "Search.aspx?ID=" /\ search_url.id # 0
      [] OTHER -> "search_page" \in issued

\* the place of a first request of kind u in a modern run
ModernOrder(u) ==
    CASE u = "search_page" ->
            issued = {} /\ search_url = [path |-> "Home/Dashboard/26", id |-> 0]
      [] u \in {"login", "main_page"} -> FALSE
      [] OTHER -> "search_page" \in issued

\* C23: the first request of each kind comes at the place its generation
\* fixes: legacy sends the login (if and only if the notes carry credentials),
\* then the main page, then the search page at Search.aspx?ID= with the page
\* id of the first court-calendar link of the main page; modern sends the
\* search page at Home/Dashboard/26 first, and never a login or a main page.
C23_RequestOrderByGeneration ==
    [][/\ \A u \in issued' \ issued :
             IF odyssey_version < ModernVersion THEN LegacyOrder(u) ELSE ModernOrder(u)
       /\ (pc = "await_main" /\ pc' = "await_search_page")
             => LET links == f_ret[1].anchors IN
                \E i \in CalendarLinks(links) :
                    /\ \A j \in CalendarLinks(links) : i <= j
                    /\ search_url' = [path |-> "Search.aspx?ID=", id |-> links[i].page]]_vars

C23_Witness ==
    /\ county = "login"
    /\ issued = {"login", "main_page", "search_page"}
    /\ search_url.path = "Search.aspx?ID="

\* ---- the modern case loop
\* C24: for each case reference of a modern result list the case page is
\* requested once, then the financial fragment once and only after the case
\* page came back verified; a document is written only when both came back
\* verified, and it is the case page followed by the financial fragment; a
\* step that fails the run writes nothing.
C24_TwoRequestsPerCase ==
    [][/\ (f_url' = "case_detail" /\ f_url # "case_detail")
             => /\ pc \in {"await_read", "await_financial"}
                /\ case_idx' = case_idx + 1
       /\ (f_url' = "financial" /\ f_url # "financial")
             => /\ pc = "await_detail" /\ fpc = "returned" /\ f_url = "case_detail"
                /\ Contains(f_ret[1], "Case Information")
                /\ case_idx' = case_idx
       /\ (pc = "await_financial" /\ pc' # pc)
             => (case_idx' # case_idx \/ pc' \in {"done", "failed"})
       /\ sink' # sink
             => /\ pc = "await_financial" /\ fpc = "returned" /\ f_url = "financial"
                /\ case_html # None
                /\ Contains(case_html[1], "Case Information")
                /\ Contains(f_ret[1], "Financial")
                /\ \E b \in sink' : /\ sink' = sink \cup {b}
                                     /\ b.contents.case_no = case_html[1].doc
                                     /\ b.contents.body =
                                            Some(<<Table(FALSE, case_html[1].doc, None)>>)
                                     /\ b.contents.tail = f_ret[1].doc
       /\ pc' = "failed" => sink' = sink]_vars

\* the first case of a list was written, the financial request of the second failed
C24_Witness ==
    /\ pc = "failed" /\ f_url = "financial" /\ case_idx = 2
    /\ Cardinality(sink) = 1
    /\ \A b \in sink : b.contents.tail = 1

\* ---- the events table
\* the rows the events branch reads: those with a header cell and some text
EventRowsOf(page) == HeaderRowTexts(page.tables[Len(page.tables)])
IsMarker(row, marker) == row[1] = <<marker>>
NotOtherEventsMarker(row) == ~IsMarker(row, "OTHER EVENTS AND HEARINGS")
Highest(S) == CHOOSE i \in S : \A j \in S : j <= i

\* the lowest "DISPOSITIONS" row (0: none), where the scan from the bottom stops
StopRow(rows) ==
    Highest({0} \cup {i \in 1..Len(rows) : IsMarker(rows[i], "DISPOSITIONS")})
\* the lowest "OTHER EVENTS AND HEARINGS" row below it (the stop row: none)
SwitchRow(rows) ==
    Highest({StopRow(rows)} \cup
            {i \in (StopRow(rows) + 1)..Len(rows) : IsMarker(rows[i], "OTHER EVENTS AND HEARINGS")})

\* C25: the other-events list is the rows below the lowest "OTHER EVENTS AND
\* HEARINGS" row that lies below the lowest "DISPOSITIONS" row (all rows below
\* that one if there is none), the dispositions list is the rows between the
\* two that are not markers, both in page order; no marker row and no row
\* at or above the "DISPOSITIONS" row is in either list.
C25_EventsSectionMachine ==
    (p_out # None /\ p_out[1].error = "")
    => LET rows == EventRowsOf(p_in)
           stop == StopRow(rows)
           switch == SwitchRow(rows)
       IN  /\ p_out[1].data["other events and hearings"] = SubSeq(rows, switch + 1, Len(rows))
           /\ p_out[1].data["dispositions"] =
                  SelectSeq(SubSeq(rows, stop + 1, switch - 1), NotOtherEventsMarker)

\* a table with a row above "DISPOSITIONS", two rows between the markers and one below
C25_Witness ==
    /\ p_out # None /\ p_out[1].error = ""
    /\ StopRow(EventRowsOf(p_in)) = 2
    /\ Len(p_out[1].data["dispositions"]) = 2
    /\ p_out[1].data["dispositions"][1] # p_out[1].data["dispositions"][2]
    /\ Len(p_out[1].data["other events and hearings"]) = 1

\* ---- appointed or retained
\* the defendant rows of the page's party table, and the string of the first
\* one that lines 108-112 take for the value
DefendantRowsOf(page) == PartySections(AllRowTexts(page.tables[1])).defendant
ValueCell(page) ==
    LET d0 == FixedDefendantRow(DefendantRowsOf(page)[1])
        has_height_and_weight == Len(d0) > 4 /\ "," \in {d0[5][i] : i \in 1..Len(d0[5])}
    IN  At(d0, IF has_height_and_weight THEN 6 ELSE 5)
Occurs(page, phrase) == HoldsLower(DefendantRowsOf(page), phrase)
PhraseOrder == << <<"Court", "Appointed">>, <<"Retained">>, <<"Appointed">>, <<"Pro", "Se">> >>

\* C26: on a page with only a party table the value is Appointed, Retained,
\* Court Appointed, Pro Se or empty; it is the parsed cell when that is one of
\* the four, otherwise the first of Court Appointed, Retained, Appointed,
\* Pro Se that occurs (in any case) in the defendant rows, empty if none does.
C26_AppointedOrRetainedFallback ==
    (p_out # None /\ p_out[1].error = "")
    => LET value == p_out[1].data["party information"]["appointed or retained"]
           cell == ValueCell(p_in)
           allowed == {PhraseOrder[p] : p \in 1..4}
       IN  /\ value \in allowed \cup {<<>>}
           /\ cell \in allowed => value = cell
           /\ cell \notin allowed
                =>  \/ value = <<>> /\ \A p \in 1..4 : ~Occurs(p_in, PhraseOrder[p])
                    \/ \E p \in 1..4 : /\ value = PhraseOrder[p]
                                        /\ Occurs(p_in, PhraseOrder[p])
                                        /\ \A q \in 1..(p - 1) : ~Occurs(p_in, PhraseOrder[q])

\* the cell holds something else, the rows hold "Appointed" and "retained"
C26_Witness ==
    /\ p_out # None /\ p_out[1].error = ""
    /\ ValueCell(p_in) = <<"Extra">>
    /\ Occurs(p_in, <<"Appointed">>)
    /\ p_out[1].data["party information"]["appointed or retained"] = <<"Retained">>

\* ---- batches across the searches of a run
\* the results of a search just arrived, more of them than the inline
\* threshold, in a run that is no test
LargeResult ==
    /\ pc = "await_detail" /\ case_idx = 1
    /\ case_list > InlineThreshold /\ ~is_test

\* the queue output holds at least the references of two such searches
QueueCoversTwo ==
    /\ queue # None
    /\ Len(Concat(queue[1])) >= 2 * (InlineThreshold + 1)

\* C27: when the first search of a run and a later one each came back with
\* more references than the inline threshold and the run then completes
\* normally, the queue output holds the references of both.
C27_NoBatchLostAcrossQueries ==
    []((LargeResult /\ Len(searches) = 1)
         => []((LargeResult /\ Len(searches) > 1) => [](pc = "done" => QueueCoversTwo)))

\* ---- the process-wide session and client
\* C28: in one worker process initialize_session and
\* initialize_blob_container_client are each called at most once, whatever the
\* number of invocations of main and however they overlap, and every
\* invocation works with the session and the client made first.
C28_ConstructedOncePerProcess ==
    /\ worker.sessions <= 1
    /\ worker.clients <= 1
    /\ \A i \in Invocations :
          worker.used[i].session \in {0, 1} /\ worker.used[i].client \in {0, 1}
====
